---- MODULE Spec2Model ----
(***************************************************************************)
(* HR-Copilot orchestration core: the conversation ledger                  *)
(* (models/conversation.py), the memory service                            *)
(* (services/memory_service.py), the task decomposer                       *)
(* (agents/task_decomposer.py), the orchestrator (agents/orchestrator.py)   *)
(* and the retry loop of the reasoning service (services/llm_service.py).  *)
(* Python dicts are functions whose DOMAIN is                              *)
(* the key set, Python lists are sequences.  The reasoning service, the    *)
(* database and the file system are the environment: each call to them     *)
(* draws its outcome from a small set.                                     *)
(***************************************************************************)
EXTENDS Integers, Sequences, FiniteSets, TLC

VARIABLES
    sessions,           \* ConversationManager.sessions: session id -> ConversationState
    max_history,        \* ConversationManager.max_history
    short_term_memory,  \* MemoryService.short_term_memory: session id -> list of entries
    context_cache,      \* MemoryService.context_cache: session id -> type -> entry
    long_term_memory,   \* MemoryService.long_term_memory: entity id -> record
    now,                \* datetime.utcnow(), in minutes
    pc,                 \* position of the process_request invocation
    session_id,         \* process_request argument
    user_message,       \* process_request argument
    full_context,       \* process_request local (mutated by _execute_tasks)
    gathered_context,   \* history: full_context as built at lines 42-46
    intent_analysis,    \* process_request local
    decomposition,      \* what decompose returned (its tasks are in emission order)
    execution_plan,     \* process_request local
    results,            \* _execute_tasks local
    next_task,          \* _execute_tasks loop position (1-based index into the plan)
    response,           \* the AgentResponse returned to the caller
    raised,             \* the exception that left process_request, "" if none
    calls,              \* history: the collaborator calls made by this request, in order
    inflight,           \* per thread: the ledger or memory operation it is inside, and where
    ops,                \* history: per thread, the operations it has completed, in order
    alone,              \* history: per thread, the stores its own operations alone produce
    llm                 \* one LLMService.generate_response invocation

vars == <<sessions, max_history, short_term_memory, context_cache, long_term_memory,
          now, pc,
          session_id, user_message, full_context, gathered_context, intent_analysis,
          decomposition, execution_plan, results, next_task, response, raised, calls,
          inflight, ops, alone, llm>>

ledgerVars == <<sessions, max_history>>
memoryVars == <<short_term_memory, context_cache, long_term_memory, now>>
requestVars == <<pc, session_id, user_message, full_context, gathered_context,
                 intent_analysis, decomposition, execution_plan, results, next_task, response,
                 raised, calls>>
threadVars == <<inflight, ops, alone>>

-----------------------------------------------------------------------------
(* Bounds and program constants *)

MaxTasks == 2              \* longest task list the reasoning service emits
DefaultMaxHistory == 20    \* ConversationManager.__init__(max_history=20)
DefaultTtlMinutes == 60    \* store_short_term(ttl_minutes=60)
HistoryLimit == 5          \* process_request: get_messages(session_id, limit=5)
SummaryWindow == 3         \* _summarize_conversation: messages[-3:]
RecentWindow == 5          \* get_relevant_context: recent_memory[-5:]
DefaultPriority == 3       \* decompose: task_data.get('priority', 3)
NextActionCap == 5         \* _generate_response: list(set(...))[:5]

-----------------------------------------------------------------------------
(* Python dict and list helpers *)

EmptyDict == [k \in {} |-> TRUE]

\* {**a, **b}: the keys of both, b's value winning
Merge(a, b) ==
    [k \in DOMAIN a \cup DOMAIN b |-> IF k \in DOMAIN b THEN b[k] ELSE a[k]]

\* Optional values: None, and a value that is there
None == <<>>
Some(x) == <<x>>

\* d.get(k, default)
Get(d, k, default) == IF k \in DOMAIN d THEN d[k] ELSE default

\* xs[-n:]: the last n elements for n > 0; for n <= 0 the index -n counts from the
\* front, so xs[-0:] is the whole list and xs[2:] drops the first two
LastN(xs, n) ==
    IF n > 0
    THEN IF Len(xs) <= n THEN xs ELSE SubSeq(xs, Len(xs) - n + 1, Len(xs))
    ELSE SubSeq(xs, 1 - n, Len(xs))

\* sep.join(parts)
RECURSIVE Join(_, _)
Join(parts, sep) ==
    IF parts = <<>> THEN ""
    ELSE IF Len(parts) = 1 THEN parts[1]
         ELSE parts[1] \o sep \o Join(Tail(parts), sep)

Range(xs) == {xs[i] : i \in DOMAIN xs}

-----------------------------------------------------------------------------
(* models/conversation.py: ConversationManager *)

ConversationMessage(role, content) == [role |-> role, content |-> content]

ConversationState(at) == [messages |-> <<>>, updated_at |-> at]

\* add_message, lines 35-38: create the session if absent
ensure_session(ss, sid) ==
    IF sid \in DOMAIN ss THEN ss
    ELSE Merge(ss, [s \in {sid} |-> ConversationState(now)])

\* add_message, lines 40-48: append the message, stamp the session
append_message(ss, sid, role, content) ==
    [ss EXCEPT ![sid] = [messages |-> Append(@.messages,
                                             ConversationMessage(role, content)),
                         updated_at |-> now]]

\* add_message, line 51: len(session.messages) > self.max_history
over_limit(ss, sid) == Len(ss[sid].messages) > max_history

\* add_message, line 52, right-hand side: session.messages[-self.max_history:]
history_slice(ss, sid) == LastN(ss[sid].messages, max_history)

\* add_message, line 52, the assignment
set_messages(ss, sid, msgs) == [ss EXCEPT ![sid].messages = msgs]

\* add_message: create the session if absent, append, stamp, keep the last max_history
add_message(ss, sid, role, content) ==
    LET appended == append_message(ensure_session(ss, sid), sid, role, content)
    IN  IF over_limit(appended, sid)
        THEN set_messages(appended, sid, history_slice(appended, sid))
        ELSE appended

\* get_messages(session_id, limit): `if limit:` treats 0 like None
get_messages(ss, sid, limit) ==
    IF sid \notin DOMAIN ss THEN <<>>
    ELSE IF limit > 0 THEN LastN(ss[sid].messages, limit)
         ELSE ss[sid].messages

-----------------------------------------------------------------------------
(* services/memory_service.py: MemoryService *)

\* a variant of the sweep's test that keeps an entry at the instant it expires
LiveEntryInclusive(e) == e.expires_at >= now

\* _cleanup_expired: keep the entries whose expires_at is still in the future
LiveEntry(e) == e.expires_at > now

\* a variant of the sweep with the comparison turned around
cleanup_expired_reversed(stm, sid) ==
    IF sid \notin DOMAIN stm THEN stm
    ELSE [stm EXCEPT ![sid] = SelectSeq(stm[sid], LAMBDA e : e.expires_at < now)]

cleanup_expired(stm, sid) ==
    IF sid \notin DOMAIN stm THEN stm
    ELSE [stm EXCEPT ![sid] = SelectSeq(stm[sid], LiveEntry)]

\* a variant of the sweep's assignment that rebuilds the store around the one session
set_entries_only(stm, sid, entries) == [s \in {sid} |-> entries]

\* _cleanup_expired, line 161, the assignment: self.short_term_memory[session_id] = ...
set_entries(stm, sid, entries) == [stm EXCEPT ![sid] = entries]

\* store_short_term, lines 25-26: create the session's list if absent
ensure_entries(stm, sid) ==
    IF sid \in DOMAIN stm THEN stm ELSE Merge(stm, [s \in {sid} |-> <<>>])

\* a variant of the append that replaces the entries stored under the same key
append_entry_overwriting(stm, sid, key, value, ttl_minutes) ==
    [stm EXCEPT ![sid] =
        Append(SelectSeq(@, LAMBDA e : e.key # key),
               [key |-> key, value |-> value, timestamp |-> now,
                expires_at |-> now + ttl_minutes])]

\* store_short_term, lines 28-35: build the entry and append it
append_entry(stm, sid, key, value, ttl_minutes) ==
    [stm EXCEPT ![sid] = Append(@, [key |-> key, value |-> value, timestamp |-> now,
                                    expires_at |-> now + ttl_minutes])]

\* get_short_term(session_id, key), lines 49-53: the newest entry with the key
RECURSIVE newest_value(_, _)
newest_value(entries, key) ==
    IF entries = <<>> THEN <<>>
    ELSE IF entries[Len(entries)].key = key THEN <<entries[Len(entries)].value>>
         ELSE newest_value(SubSeq(entries, 1, Len(entries) - 1), key)

\* get_short_term(session_id), lines 55-58: key and value of every entry
listing(entries) ==
    [i \in DOMAIN entries |-> [key |-> entries[i].key, value |-> entries[i].value]]

\* store_context, lines 83-84: create the session's cache if absent
ensure_context(cc, sid) ==
    IF sid \in DOMAIN cc THEN cc ELSE Merge(cc, [s \in {sid} |-> EmptyDict])

\* store_context, lines 86-89: overwrite the entry of the context type
set_context(cc, sid, context_type, data) ==
    [cc EXCEPT ![sid] = Merge(@, [t \in {context_type} |->
                                     [data |-> data, timestamp |-> now]])]

\* a variant of store_short_term that sweeps the session and appends nothing
store_short_term_unsaved(stm, sid, key, value, ttl_minutes) ==
    cleanup_expired(stm, sid)

\* store_short_term: append the entry, then sweep the session
store_short_term(stm, sid, key, value, ttl_minutes) ==
    LET base == IF sid \in DOMAIN stm THEN stm
                ELSE Merge(stm, [s \in {sid} |-> <<>>])
        entry == [key |-> key, value |-> value, timestamp |-> now,
                  expires_at |-> now + ttl_minutes]
    IN  cleanup_expired([base EXCEPT ![sid] = Append(base[sid], entry)], sid)

\* get_short_term(session_id) without a key: the listing of what the sweep left
short_term_listing(stm, sid) ==
    IF sid \notin DOMAIN stm THEN <<>>
    ELSE LET live == cleanup_expired(stm, sid)[sid]
         IN  [i \in DOMAIN live |-> [key |-> live[i].key, value |-> live[i].value]]

\* get_context(session_id) without a type: None for an unknown session
has_context(cc, sid) == sid \in DOMAIN cc

get_context_all(cc, sid) == [k \in DOMAIN cc[sid] |-> cc[sid][k].data]

\* get_relevant_context: the returned dict (the query is not used)
get_relevant_context(stm, cc, sid, query) ==
    LET recent_memory == short_term_listing(stm, sid)
        context0 == IF recent_memory # <<>>
                    THEN [k \in {"recent_interactions"} |->
                             LastN(recent_memory, RecentWindow)]
                    ELSE EmptyDict
        session_context == IF has_context(cc, sid) THEN get_context_all(cc, sid)
                           ELSE EmptyDict
    IN  Merge(context0, session_context)

\* a variant of get_context that indexes the cache without looking first
get_context_unguarded(cc, sid, context_type) ==
    IF sid \notin DOMAIN cc \/ (context_type # "" /\ context_type \notin DOMAIN cc[sid])
    THEN [raised |-> "KeyError"]
    ELSE IF context_type # "" THEN cc[sid][context_type].data
    ELSE get_context_all(cc, sid)

\* get_context(session_id, context_type): None for an unknown session; with a type,
\* the data of its entry or None; without (`if context_type:`), the data of every type
get_context(cc, sid, context_type) ==
    IF sid \notin DOMAIN cc THEN None
    ELSE IF context_type # ""
    THEN (IF context_type \in DOMAIN cc[sid] THEN cc[sid][context_type].data ELSE None)
    ELSE get_context_all(cc, sid)

\* store_long_term, lines 66-67: create the entity's record if absent
ensure_record(ltm, entity_id) ==
    IF entity_id \in DOMAIN ltm THEN ltm ELSE Merge(ltm, [e \in {entity_id} |-> EmptyDict])

\* a variant of the update that replaces the record by the supplied fields
update_record_replacing(ltm, entity_id, data) == [ltm EXCEPT ![entity_id] = data]

\* store_long_term, line 69: .update(data)
update_record(ltm, entity_id, data) == [ltm EXCEPT ![entity_id] = Merge(@, data)]

\* store_long_term, line 70: the record's updated_at is set to the time of the store
stamp_record(ltm, entity_id) ==
    [ltm EXCEPT ![entity_id] = Merge(@, [k \in {"updated_at"} |-> now])]

store_long_term(ltm, entity_id, data) ==
    stamp_record(update_record(ensure_record(ltm, entity_id), entity_id, data), entity_id)

\* get_long_term: .get(entity_id)
get_long_term(ltm, entity_id) == IF entity_id \in DOMAIN ltm THEN ltm[entity_id] ELSE None

\* clear_session, lines 150-153: `if session_id in ...: del ...[session_id]`
drop_session(store, sid) == [s \in DOMAIN store \ {sid} |-> store[s]]

-----------------------------------------------------------------------------
(* models/schemas.py: TaskType *)

TaskTypeValues ==
    {"job_description", "resume_screening", "interview_scheduling",
     "email_communication", "analytics", "offer_generation"}

\* TaskType(value) raises ValueError unless value is one of the enumeration's values
IsTaskType(value) == value \in TaskTypeValues

-----------------------------------------------------------------------------
(* agents/task_decomposer.py: TaskDecomposerAgent *)

\* f"task_{idx+1}" for the 0-based enumerate index idx
TaskId(idx) == "task_" \o ToString(idx + 1)

\* AgentTask(...) built from one emitted task descriptor
AgentTask(idx, task_data, user_request) ==
    [task_id |-> TaskId(idx),
     task_type |-> task_data.task_type,
     description |-> task_data.description,
     input_data |-> [user_request |-> user_request,
                     dependencies |-> Get(task_data, "dependencies", <<>>),
                     input_requirements |-> Get(task_data, "input_requirements", <<>>)],
     priority |-> Get(task_data, "priority", DefaultPriority)]

\* decompose, given the reasoning service's parsed answer: the conversion loop raises
\* ValueError on the first descriptor whose task_type is outside the enumeration,
\* before the clarification flag is looked at
decompose(result, user_request) ==
    LET emitted == Get(result, "tasks", <<>>)
        tasks == [i \in DOMAIN emitted |-> AgentTask(i - 1, emitted[i], user_request)]
    IN  IF \E i \in DOMAIN emitted : ~IsTaskType(emitted[i].task_type)
        THEN [raised |-> "ValueError", tasks |-> <<>>,
              requires_clarification |-> FALSE, questions |-> <<>>]
        ELSE IF Get(result, "requires_clarification", FALSE)
        THEN [raised |-> "", tasks |-> tasks, requires_clarification |-> TRUE,
              questions |-> Get(result, "clarification_questions", <<>>)]
        ELSE [raised |-> "", tasks |-> tasks, requires_clarification |-> FALSE,
              questions |-> <<>>]

\* a variant of validate_task_sequence that returns after the first task's dependencies
validate_first_task_only(tasks) ==
    LET task_ids == {tasks[i].task_id : i \in DOMAIN tasks}
    IN  \A i \in DOMAIN tasks :
            i = 1 =>
                \A d \in DOMAIN tasks[i].input_data.dependencies :
                    tasks[i].input_data.dependencies[d] \in task_ids

\* a variant of validate_task_sequence that also rejects a task depending on itself
validate_without_self_dependency(tasks) ==
    LET task_ids == {tasks[i].task_id : i \in DOMAIN tasks}
    IN  \A i \in DOMAIN tasks :
            \A d \in DOMAIN tasks[i].input_data.dependencies :
                /\ tasks[i].input_data.dependencies[d] \in task_ids
                /\ tasks[i].input_data.dependencies[d] # tasks[i].task_id

\* a variant of validate_task_sequence that rejects an empty task list
validate_nonempty_sequence(tasks) ==
    LET task_ids == {tasks[i].task_id : i \in DOMAIN tasks}
    IN  /\ tasks # <<>>
        /\ \A i \in DOMAIN tasks :
               \A d \in DOMAIN tasks[i].input_data.dependencies :
                   tasks[i].input_data.dependencies[d] \in task_ids

\* validate_task_sequence: every dependency names the task_id of a task of the list
validate_task_sequence(tasks) ==
    LET task_ids == {tasks[i].task_id : i \in DOMAIN tasks}
    IN  \A i \in DOMAIN tasks :
            \A d \in DOMAIN tasks[i].input_data.dependencies :
                tasks[i].input_data.dependencies[d] \in task_ids

\* a variant of the insertion that puts t before the elements of equal key
RECURSIVE InsertBeforeEqual(_, _)
InsertBeforeEqual(t, sorted) ==
    IF sorted = <<>> THEN <<t>>
    ELSE IF Head(sorted).priority < t.priority
         THEN <<Head(sorted)>> \o InsertBeforeEqual(t, Tail(sorted))
         ELSE <<t>> \o sorted

\* one insertion of Python's stable sort: t goes after every element whose key is <= its own
RECURSIVE InsertByPriority(_, _)
InsertByPriority(t, sorted) ==
    IF sorted = <<>> THEN <<t>>
    ELSE IF Head(sorted).priority <= t.priority
         THEN <<Head(sorted)>> \o InsertByPriority(t, Tail(sorted))
         ELSE <<t>> \o sorted

\* a variant of prioritize_tasks that leaves the emission order
prioritize_tasks_unsorted(tasks) == tasks

\* prioritize_tasks: sorted(tasks, key=lambda t: t.priority)
RECURSIVE prioritize_tasks(_)
prioritize_tasks(tasks) ==
    IF tasks = <<>> THEN <<>>
    ELSE InsertByPriority(tasks[Len(tasks)],
                          prioritize_tasks(SubSeq(tasks, 1, Len(tasks) - 1)))

\* _estimate_time: the per-type minutes
time_estimates ==
    [t \in TaskTypeValues |->
        CASE t = "job_description" -> 2
          [] t = "resume_screening" -> 3
          [] t = "interview_scheduling" -> 1
          [] t = "email_communication" -> 1
          [] t = "analytics" -> 2
          [] t = "offer_generation" -> 2]

RECURSIVE total_minutes(_)
total_minutes(tasks) ==
    IF tasks = <<>> THEN 0
    ELSE Get(time_estimates, Head(tasks).task_type, 2) + total_minutes(Tail(tasks))

estimate_time(tasks) ==
    IF total_minutes(tasks) < 5 THEN "Less than 5 minutes"
    ELSE IF total_minutes(tasks) < 15 THEN "5-15 minutes"
         ELSE "15+ minutes"

\* the task dict generate_execution_plan puts in a ready plan
PlanTask(task) ==
    [task_id |-> task.task_id, type |-> task.task_type,
     description |-> task.description, priority |-> task.priority]

\* a variant of generate_execution_plan that loses the decomposer's questions
generate_execution_plan_without_questions(d) ==
    IF d.requires_clarification
    THEN [status |-> "needs_clarification", questions |-> <<>>, plan |-> "None"]
    ELSE IF ~validate_task_sequence(d.tasks)
    THEN [status |-> "invalid_sequence", error |-> "Task dependencies are invalid",
          plan |-> "None"]
    ELSE [status |-> "ready",
          total_tasks |-> Len(d.tasks),
          tasks |-> [i \in DOMAIN prioritize_tasks(d.tasks) |->
                        PlanTask(prioritize_tasks(d.tasks)[i])],
          estimated_time |-> estimate_time(prioritize_tasks(d.tasks))]

\* a variant of generate_execution_plan that validates before it looks at the flag
generate_execution_plan_validating_first(d) ==
    IF ~validate_task_sequence(d.tasks)
    THEN [status |-> "invalid_sequence", error |-> "Task dependencies are invalid",
          plan |-> "None"]
    ELSE IF d.requires_clarification
    THEN [status |-> "needs_clarification", questions |-> d.questions, plan |-> "None"]
    ELSE [status |-> "ready",
          total_tasks |-> Len(d.tasks),
          tasks |-> [i \in DOMAIN prioritize_tasks(d.tasks) |->
                        PlanTask(prioritize_tasks(d.tasks)[i])],
          estimated_time |-> estimate_time(prioritize_tasks(d.tasks))]

\* generate_execution_plan, given what decompose returned
generate_execution_plan(d) ==
    IF d.requires_clarification
    THEN [status |-> "needs_clarification", questions |-> d.questions, plan |-> "None"]
    ELSE IF ~validate_task_sequence(d.tasks)
    THEN [status |-> "invalid_sequence", error |-> "Task dependencies are invalid",
          plan |-> "None"]
    ELSE LET prioritized_tasks == prioritize_tasks(d.tasks)
         IN  [status |-> "ready",
              total_tasks |-> Len(prioritized_tasks),
              tasks |-> [i \in DOMAIN prioritized_tasks |->
                            PlanTask(prioritized_tasks[i])],
              estimated_time |-> estimate_time(prioritized_tasks)]

-----------------------------------------------------------------------------
(* Capability handlers: agents/jd_generator_agent.py, screening_agent.py,  *)
(* interview_agent.py.  A handler's outcome is what execute(task_data)     *)
(* does: return a dict, or raise.                                           *)


Returned(result) == [raises |-> FALSE, result |-> result, error |-> ""]
Raised(error) == [raises |-> TRUE, result |-> EmptyDict, error |-> error]

Failure(error) == [success |-> FALSE, error |-> error]

\* `not task_data.get(key)`
Missing(task_data, key) == key \notin DOMAIN task_data

\* JDGeneratorAgent.execute: no failure is returned as a value; the extraction call,
\* the template and the database may raise
JdOutcomes(task_data) ==
    { Returned([success |-> TRUE, job_id |-> "job-7", job_description |-> "jd-doc",
                formatted_text |-> "jd-text",
                message |-> "Job description created for Engineer",
                next_actions |-> <<"Review and edit the job description",
                                   "Post to job boards",
                                   "Start screening candidates">>]),
      Raised("Error generating response: unavailable") }

\* ScreeningAgent._get_next_actions
ScreeningNextActions(recommendation) ==
    CASE recommendation = "strong_match" ->
            <<"Schedule interview immediately", "Send interview invitation email",
              "Prepare interview questions">>
      [] recommendation = "good_match" ->
            <<"Review resume in detail", "Consider for phone screening",
              "Compare with other candidates">>
      [] recommendation = "potential_match" ->
            <<"Keep in pipeline", "Request additional information",
              "Consider for future positions">>
      [] OTHER ->
            <<"Send rejection email", "Archive application",
              "Provide feedback if requested">>

\* ScreeningAgent.execute: the two required keys, then a failure returned as a value
\* (job not found; a resume that cannot be parsed is returned in the same shape), an
\* exception from the reasoning service, or the screening of a strong match
ScreeningOutcomes(task_data) ==
    IF Missing(task_data, "job_id") THEN {Returned(Failure("job_id required"))}
    ELSE IF Missing(task_data, "resume_path")
    THEN {Returned(Failure("resume_path required"))}
    ELSE { Returned(Failure("Job " \o task_data["job_id"] \o " not found")),
           Raised("Rate limit exceeded. Your Gemini API quota is exhausted."),
           Returned([success |-> TRUE, candidate_id |-> "cand-9",
                     screening_result |-> "strong_match", report |-> "report",
                     message |-> "Screened candidate: Ada",
                     next_actions |-> ScreeningNextActions("strong_match")]) }

\* InterviewAgent.execute: the modelled contexts carry no 'action' key, so execute
\* takes its default, schedule_interview: the required keys, then a failure returned
\* as a value (candidate not found; a missing job is returned in the same shape), an
\* exception from strptime or the database, or the scheduled interview
InterviewOutcomes(task_data) ==
    IF Missing(task_data, "candidate_id") \/ Missing(task_data, "job_id")
    THEN {Returned(Failure("candidate_id and job_id required"))}
    ELSE { Returned(Failure("Candidate " \o task_data["candidate_id"] \o " not found")),
           Raised("time data does not match format"),
           Returned([success |-> TRUE, interview_id |-> "int-3",
                     candidate_name |-> "Ada", position |-> "Engineer",
                     message |-> "Interview scheduled with Ada",
                     next_actions |-> <<"Send interview invitation email",
                                        "Prepare interview questions",
                                        "Share candidate profile with interviewer">>]) }

HandlerOutcomes(agent, task_data) ==
    CASE agent = "jd_generator_agent" -> JdOutcomes(task_data)
      [] agent = "screening_agent" -> ScreeningOutcomes(task_data)
      [] agent = "interview_agent" -> InterviewOutcomes(task_data)

-----------------------------------------------------------------------------
(* agents/orchestrator.py: OrchestratorAgent *)

\* __init__: self.agents
agents ==
    [t \in {"job_description", "resume_screening", "interview_scheduling"} |->
        CASE t = "job_description" -> "jd_generator_agent"
          [] t = "resume_screening" -> "screening_agent"
          [] t = "interview_scheduling" -> "interview_agent"]

\* f"task_{task['task_id']}_result"
ResultKey(task_id) == "task_" \o task_id \o "_result"

\* the per-task input view: {'user_request': context.get('user_request', ''), **context}
TaskData(context) ==
    Merge([k \in {"user_request"} |-> Get(context, "user_request", "")], context)

\* a variant that reports a task without an agent as skipped
NoAgentSkipped(task) ==
    [task_id |-> task.task_id, success |-> TRUE, message |-> "skipped"]

\* the result appended when the task type has no agent
NoAgentResult(task) ==
    [task_id |-> task.task_id, success |-> FALSE,
     error |-> "No agent found for task type: " \o task.type]

\* the result appended in the try block: {'task_id': ..., 'task_type': ..., **result}
HandledResult(task, result) ==
    Merge([task_id |-> task.task_id, task_type |-> task.type], result)

\* a variant of the except block that forgets the task id
ExceptionResultWithoutId(task, error) ==
    [success |-> FALSE, error |-> error]

\* the result appended in the except block
ExceptionResult(task, error) ==
    [task_id |-> task.task_id, success |-> FALSE, error |-> error]

\* a variant of the loop body whose except block resets the shared context
DispatchResettingContext(task, context, outcome) ==
    IF outcome.raises
    THEN [result |-> [task_id |-> task.task_id, success |-> FALSE,
                      error |-> outcome.error],
          context |-> EmptyDict]
    ELSE [result |-> Merge([task_id |-> task.task_id, task_type |-> task.type],
                           outcome.result),
          context |-> Merge(context,
                            [k \in {"task_" \o task.task_id \o "_result"} |->
                                outcome.result])]

\* one iteration of the _execute_tasks loop for a task that has an agent, given what
\* the agent did: the result appended and the context the loop goes on with
Dispatch(task, context, outcome) ==
    IF outcome.raises
    THEN [result |-> ExceptionResult(task, outcome.error), context |-> context]
    ELSE [result |-> HandledResult(task, outcome.result),
          context |-> Merge(context,
                            [k \in {ResultKey(task.task_id)} |-> outcome.result])]

\* a variant of line 180 that takes every result for a success
SucceededAlways(r) == TRUE

\* a variant of line 181 that takes only a result without the key for a failure
FailedByMissingKey(r) == "success" \notin DOMAIN r

Succeeded(r) == Get(r, "success", FALSE)
Failed(r) == ~Get(r, "success", FALSE)

\* list(set(xs)): the distinct elements of xs in the set's iteration order, which the
\* interpreter's string hashing fixes; order lists every next-action string in it
ListOfSet(xs, order) == SelectSeq(order, LAMBDA a : a \in Range(xs))

\* a variant of line 217 without the [:5]
FirstNUncapped(xs, n) == xs

\* xs[:n]
FirstN(xs, n) == IF Len(xs) <= n THEN xs ELSE SubSeq(xs, 1, n)

RECURSIVE Messages(_)
Messages(successful) ==
    IF successful = <<>> THEN <<>>
    ELSE (IF Get(Head(successful), "message", "") # ""
          THEN <<Head(successful)["message"]>> ELSE <<>>)
         \o Messages(Tail(successful))

RECURSIVE AllNextActions(_)
AllNextActions(successful) ==
    IF successful = <<>> THEN <<>>
    ELSE Get(Head(successful), "next_actions", <<>>) \o AllNextActions(Tail(successful))

ResponseKeys == {"job_id", "candidate_id", "interview_id", "job_description"}

\* response_data: for each key, the value of the last successful result that has it
RECURSIVE ResponseData(_)
ResponseData(successful) ==
    IF successful = <<>> THEN EmptyDict
    ELSE LET r == successful[Len(successful)]
             rest == ResponseData(SubSeq(successful, 1, Len(successful) - 1))
         IN  Merge(rest, [k \in ResponseKeys \cap DOMAIN r |-> r[k]])

AgentResponse(success, message, data, suggestions, next_actions) ==
    [success |-> success, message |-> message, data |-> data,
     suggestions |-> suggestions, next_actions |-> next_actions]

\* _generate_response
generate_response(rs, order) ==
    LET successful_results == SelectSeq(rs, Succeeded)
        failed_results == SelectSeq(rs, Failed)
        messages == Messages(successful_results)
        all_next_actions == AllNextActions(successful_results)
        response_data == ResponseData(successful_results)
        joined == IF messages # <<>> THEN Join(messages, "\n")
                  ELSE "Task completed successfully"
        response_message ==
            IF Len(successful_results) > 1
            THEN joined \o "\n\nCompleted " \o ToString(Len(successful_results))
                        \o " tasks."
            ELSE joined
    IN  IF successful_results = <<>>
        THEN AgentResponse(FALSE,
                 "I encountered some issues processing your request:",
                 Some([errors |-> [i \in DOMAIN failed_results |->
                                      Get(failed_results[i], "error", "None")]]),
                 None, None)
        ELSE AgentResponse(TRUE, response_message,
                 IF response_data # EmptyDict THEN Some(response_data) ELSE None,
                 None,
                 IF all_next_actions # <<>>
                 THEN Some(FirstN(ListOfSet(all_next_actions, order), NextActionCap))
                 ELSE None)

\* _summarize_conversation; the modelled contents are shorter than the 100 characters
\* msg.content[:100] keeps
SummaryPart(msg) ==
    (IF msg.role = "user" THEN "User" ELSE "Assistant") \o ": " \o msg.content

summarize_conversation(messages) ==
    IF messages = <<>> THEN "New conversation"
    ELSE LET recent == LastN(messages, SummaryWindow)
         IN  Join([i \in DOMAIN recent |-> SummaryPart(recent[i])], " | ")

-----------------------------------------------------------------------------
(* The environment: callers and the reasoning service *)

Session == "s1"

UserMessages == {"create a job for X"}

\* the optional context argument of process_request
CallerContexts ==
    { EmptyDict,
      [job_id |-> "job-1", resume_path |-> "cv.pdf", candidate_id |-> "cand-1"] }

\* what a call to the reasoning service does: error "" is a parsed answer, anything
\* else is the exception generate_response or generate_structured_output raises
Answer(value) == [error |-> "", value |-> value]
Failing(error) == [error |-> error, value |-> EmptyDict]

UpstreamFailures ==
    { Failing("Rate limit exceeded. Your Gemini API quota is exhausted."),
      Failing("Failed to parse JSON response") }

IntentReplies ==
    { Answer([intent |-> "job_description", requires_clarification |-> FALSE,
              clarification_questions |-> <<>>]),
      Answer([intent |-> "general", requires_clarification |-> TRUE,
              clarification_questions |-> <<"Which position?", "Which location?">>]),
      Answer([intent |-> "general", requires_clarification |-> TRUE]) }
    \cup UpstreamFailures

\* the types with an agent, one of the three types without (they are dispatched
\* alike), and a string outside the enumeration
EmittedTaskTypes ==
    {"job_description", "resume_screening", "interview_scheduling", "analytics"}
EmittedTypes == EmittedTaskTypes \cup {"onboarding"}
EmittedPriorities == {1, 3}
\* no dependency, the first task, and the bare index "1" the prompt's schema asks for
\* ("task indices this depends on"), which is no task_id
EmittedDependencies == {<<>>, <<"task_1">>, <<"1">>}

\* one task descriptor of the decomposition answer; the priority may be left out
EmittedTasks ==
    [task_type : EmittedTaskTypes, description : {"d"}, priority : EmittedPriorities,
     dependencies : EmittedDependencies]
    \cup [task_type : EmittedTypes, description : {"d"}, dependencies : {<<>>}]

\* descriptors whose dependencies name the first or the second task of the answer,
\* themselves included, next to those above
DependentTasks ==
    [task_type : {"job_description", "analytics"}, description : {"d"},
     priority : EmittedPriorities,
     dependencies : EmittedDependencies \cup {<<"task_2">>}]

\* the task lists of a given length
EmittedTaskLists(n) == [1..n -> EmittedTasks]

\* the decomposition answer: the task list, the clarification flag and its questions
DecompositionAnswer(ts, flag) ==
    Answer([tasks |-> ts, requires_clarification |-> flag,
            clarification_questions |-> IF flag THEN <<"Which resume?">> ELSE <<>>])

\* iteration orders of a Python set of next-action strings
SetOrders ==
    { <<"Review and edit the job description", "Post to job boards",
        "Start screening candidates", "Schedule interview immediately",
        "Send interview invitation email", "Prepare interview questions",
        "Review resume in detail", "Consider for phone screening",
        "Compare with other candidates", "Share candidate profile with interviewer",
        "Keep in pipeline", "Request additional information",
        "Consider for future positions", "Send rejection email",
        "Archive application", "Provide feedback if requested">>,
      <<"Provide feedback if requested", "Archive application",
        "Send rejection email", "Consider for future positions",
        "Request additional information", "Keep in pipeline",
        "Share candidate profile with interviewer", "Compare with other candidates",
        "Consider for phone screening", "Review resume in detail",
        "Prepare interview questions", "Send interview invitation email",
        "Schedule interview immediately", "Start screening candidates",
        "Post to job boards", "Review and edit the job description">> }

-----------------------------------------------------------------------------
(* Initial states: a fresh process, or one that has served earlier requests *)

StartTime == 100

FullLedger == [i \in 1..DefaultMaxHistory |->
                  IF i % 2 = 1 THEN ConversationMessage("user", "hello")
                  ELSE ConversationMessage("assistant", "I need more information:")]

EarlierAction(written) ==
    [key |-> "last_action",
     value |-> [intent |-> "general", results |-> <<>>],
     timestamp |-> written, expires_at |-> written + DefaultTtlMinutes]

\* a fresh process, and a long-running session with a full ledger, an expired
\* snapshot and a live one
InitialStores ==
    { [ledger |-> EmptyDict, memory |-> EmptyDict],
      [ledger |-> [s \in {Session} |->
                      [messages |-> FullLedger, updated_at |-> StartTime - 1]],
       memory |-> [s \in {Session} |->
                      << EarlierAction(StartTime - DefaultTtlMinutes),
                         EarlierAction(StartTime - 1) >>]] }

NoResponse == [success |-> FALSE, message |-> "", data |-> None,
               suggestions |-> None, next_actions |-> None]

NoPlan == [status |-> "none"]

NoDecomposition == [raised |-> "", tasks |-> <<>>, requires_clarification |-> FALSE,
                    questions |-> <<>>]

RequestInit ==
    /\ pc = "idle"
    /\ session_id = ""
    /\ user_message = ""
    /\ full_context = EmptyDict
    /\ gathered_context = EmptyDict
    /\ intent_analysis = EmptyDict
    /\ decomposition = NoDecomposition
    /\ execution_plan = NoPlan
    /\ results = <<>>
    /\ next_task = 1
    /\ response = NoResponse
    /\ raised = ""
    /\ calls = <<>>

\* no thread is inside a ledger or memory operation of its own
NoThreads ==
    /\ inflight = EmptyDict
    /\ ops = EmptyDict
    /\ alone = EmptyDict

\* no generate_response invocation is being followed
NoLlmCall == llm = [status |-> "idle"]

Init ==
    /\ \E store \in InitialStores :
        /\ sessions = store.ledger
        /\ short_term_memory = store.memory
    /\ max_history = DefaultMaxHistory
    /\ context_cache = EmptyDict
    /\ long_term_memory = EmptyDict
    /\ now = StartTime
    /\ RequestInit
    /\ NoThreads
    /\ NoLlmCall

-----------------------------------------------------------------------------
(* process_request, one action per stretch between two collaborator calls *)

NoOutcome == [raises |-> FALSE, result |-> EmptyDict, error |-> ""]

Call(name, task_id, task_data, outcome) ==
    [call |-> name, task_id |-> task_id, task_data |-> task_data, outcome |-> outcome]

\* a variant in which a failed step is tried again from the intent analysis
RetryAfterError(error) ==
    /\ raised' = raised
    /\ pc' = "received"

\* an exception leaves process_request: nothing in lines 26-119 catches one
RaiseOut(error) ==
    /\ raised' = error
    /\ pc' = "raised"

\* lines 34-46: append the user's message, gather the working context
ReceiveRequest ==
    /\ pc = "idle"
    /\ \E msg \in UserMessages, ctx \in CallerContexts :
        LET appended == add_message(sessions, Session, "user", msg)
            conversation_history == get_messages(appended, Session, HistoryLimit)
            memory_context == get_relevant_context(short_term_memory, context_cache,
                                                   Session, msg)
        IN  /\ sessions' = appended
            /\ short_term_memory' = cleanup_expired(short_term_memory, Session)
            /\ session_id' = Session
            /\ user_message' = msg
            /\ full_context' =
                   Merge(Merge(ctx, memory_context),
                         [k \in {"conversation_summary"} |->
                             summarize_conversation(conversation_history)])
    /\ gathered_context' = full_context'
    /\ pc' = "received"
    /\ UNCHANGED <<inflight, ops, alone, llm>>
    /\ UNCHANGED <<max_history, context_cache, long_term_memory, now, intent_analysis, decomposition,
                   execution_plan, results, next_task, response, raised, calls>>

\* the clarification short circuits of lines 52-65 and 73-86
Clarify(message, questions) ==
    /\ response' = AgentResponse(TRUE, message, None, Some(questions), None)
    /\ sessions' = add_message(sessions, session_id, "assistant", message)
    /\ pc' = "responded"

\* a variant of line 52 that never takes the clarification branch
IntentNeverNeedsClarification(analysis) == FALSE

\* line 52: intent_analysis.get('requires_clarification')
IntentNeedsClarification(analysis) == Get(analysis, "requires_clarification", FALSE)

\* lines 48-65: intent analysis and its clarification branch
AnalyzeIntent ==
    /\ pc = "received"
    /\ calls' = Append(calls, Call("analyze_intent", "", EmptyDict, NoOutcome))
    /\ \E reply \in IntentReplies :
        IF reply.error # ""
        THEN /\ RaiseOut(reply.error)
             /\ UNCHANGED <<sessions, intent_analysis, response>>
        ELSE /\ intent_analysis' = reply.value
             /\ raised' = raised
             /\ IF IntentNeedsClarification(reply.value)
                THEN Clarify("I need some clarification to help you better:",
                             Get(reply.value, "clarification_questions", <<>>))
                ELSE /\ pc' = "intent_checked"
                     /\ UNCHANGED <<sessions, response>>
    /\ UNCHANGED <<inflight, ops, alone, llm>>
    /\ UNCHANGED <<max_history, short_term_memory, context_cache, long_term_memory, now, session_id,
                   user_message, full_context, gathered_context, decomposition,
                   execution_plan, results, next_task>>

\* lines 67-93 up to the call of _execute_tasks, given the reasoning service's reply:
\* the decomposer, its clarification branch, and the read of execution_plan['tasks'],
\* a KeyError on a plan without tasks
DecomposeWith(reply) ==
    LET d == decompose(reply.value, user_message)
        plan == generate_execution_plan(d)
    IN  IF reply.error # "" \/ d.raised # ""
        THEN /\ RaiseOut(IF reply.error # "" THEN reply.error ELSE d.raised)
             /\ UNCHANGED <<sessions, decomposition, execution_plan, response>>
        ELSE /\ decomposition' = d
             /\ execution_plan' = plan
             /\ IF plan.status = "needs_clarification"
                THEN /\ Clarify("I need more information:", plan.questions)
                     /\ raised' = raised
                ELSE IF "tasks" \notin DOMAIN plan
                THEN /\ RaiseOut("KeyError: 'tasks'")
                     /\ UNCHANGED <<sessions, response>>
                ELSE /\ pc' = "executing"
                     /\ UNCHANGED <<sessions, response, raised>>

Decompose ==
    /\ pc = "intent_checked"
    /\ calls' = Append(calls, Call("generate_execution_plan", "", EmptyDict, NoOutcome))
    /\ \/ \E reply \in UpstreamFailures : DecomposeWith(reply)
       \/ \E n \in 0..MaxTasks : \E ts \in EmittedTaskLists(n) : \E flag \in BOOLEAN :
              DecomposeWith(DecompositionAnswer(ts, flag))
    /\ UNCHANGED <<inflight, ops, alone, llm>>
    /\ UNCHANGED <<max_history, short_term_memory, context_cache, long_term_memory, now, session_id,
                   user_message, full_context, gathered_context, intent_analysis,
                   results, next_task>>

\* lines 131-168: one iteration of the _execute_tasks loop
ExecuteTask ==
    /\ pc = "executing"
    /\ next_task <= Len(execution_plan.tasks)
    /\ LET task == execution_plan.tasks[next_task]
       IN  IF ~IsTaskType(task.type)
           THEN /\ RaiseOut("ValueError")
                /\ UNCHANGED <<results, next_task, full_context, calls>>
           ELSE IF task.type \notin DOMAIN agents
           THEN /\ results' = Append(results, NoAgentResult(task))
                /\ next_task' = next_task + 1
                /\ UNCHANGED <<full_context, calls, raised, pc>>
           ELSE \E outcome \in HandlerOutcomes(agents[task.type], TaskData(full_context)) :
                LET after == Dispatch(task, full_context, outcome)
                IN  /\ results' = Append(results, after.result)
                    /\ full_context' = after.context
                    /\ calls' = Append(calls, Call("execute", task.task_id,
                                                   TaskData(full_context), outcome))
                    /\ next_task' = next_task + 1
                    /\ UNCHANGED <<raised, pc>>
    /\ UNCHANGED <<inflight, ops, alone, llm>>
    /\ UNCHANGED <<sessions, max_history, short_term_memory, context_cache, long_term_memory, now,
                   session_id, user_message, gathered_context, intent_analysis,
                   decomposition, execution_plan, response>>

\* lines 95-119: synthesize the response, snapshot to memory, append to the ledger
CompleteRequest ==
    /\ pc = "executing"
    /\ next_task > Len(execution_plan.tasks)
    /\ \E order \in SetOrders :
        LET final_response == generate_response(results, order)
        IN  IF "intent" \notin DOMAIN intent_analysis
            THEN /\ RaiseOut("KeyError: 'intent'")
                 /\ UNCHANGED <<sessions, short_term_memory, response>>
            ELSE /\ short_term_memory' =
                        store_short_term(short_term_memory, session_id, "last_action",
                                         [intent |-> intent_analysis["intent"],
                                          results |-> results],
                                         DefaultTtlMinutes)
                 /\ sessions' = add_message(sessions, session_id, "assistant",
                                            final_response.message)
                 /\ response' = final_response
                 /\ pc' = "responded"
                 /\ raised' = raised
    /\ UNCHANGED <<inflight, ops, alone, llm>>
    /\ UNCHANGED <<max_history, context_cache, long_term_memory, now, session_id, user_message,
                   full_context, gathered_context, intent_analysis, decomposition,
                   execution_plan, results, next_task, calls>>

\* lines 67-93 when the reasoning service emits tasks that depend on one another
DecomposeDependent ==
    /\ pc = "intent_checked"
    /\ calls' = Append(calls, Call("generate_execution_plan", "", EmptyDict, NoOutcome))
    /\ \E n \in 1..MaxTasks : \E ts \in [1..n -> DependentTasks] : \E flag \in BOOLEAN :
           DecomposeWith(DecompositionAnswer(ts, flag))
    /\ UNCHANGED <<inflight, ops, alone, llm>>
    /\ UNCHANGED <<max_history, short_term_memory, context_cache, long_term_memory, now,
                   session_id, user_message, full_context, gathered_context,
                   intent_analysis, results, next_task>>

Next ==
    \/ ReceiveRequest
    \/ AnalyzeIntent
    \/ Decompose
    \/ ExecuteTask
    \/ CompleteRequest

Spec == Init /\ [][Next]_vars

PlanNext ==
    \/ ReceiveRequest
    \/ AnalyzeIntent
    \/ DecomposeDependent
    \/ ExecuteTask
    \/ CompleteRequest

\* a request whose decomposition has dependencies between its tasks
PlanSpec == Init /\ [][PlanNext]_vars

-----------------------------------------------------------------------------
(* Threads on the shared ledger and memory service.  Streamlit runs the script *)
(* of each browser session in a thread of its own; conversation_manager and    *)
(* memory_service are module globals that all of them share.  A thread runs    *)
(* one operation at a time, statement by statement; the clock moves between    *)
(* any two statements.                                                         *)

MaxOps == 3             \* calls a thread issues when it is the only one
MaxConcurrentOps == 1   \* calls each thread issues when there are several
MaxElapsed == 2         \* minutes the clock moves under a single thread
MaxConcurrentElapsed == 1   \* minutes the clock moves under several threads
MaxHistory == 2         \* largest configured ConversationManager.max_history
MaxMemoryOps == 2       \* calls the memory client issues
MaxAppends == 2         \* appends each of two threads makes to one session

Threads == DOMAIN inflight

Budget ==
    IF Threads = {"m1"} THEN MaxMemoryOps
    ELSE IF Threads = {"a1", "a2"} THEN MaxAppends
    ELSE IF Cardinality(Threads) = 1 THEN MaxOps ELSE MaxConcurrentOps
Horizon == IF Cardinality(Threads) = 1 THEN MaxElapsed ELSE MaxConcurrentElapsed

\* t1 and t2 serve a session each; a1 and a2 are two invocations on one session; m1
\* is a client of the memory service
SessionOf(t) == IF t = "t2" THEN "s2" ELSE "s1"

StoredKey == "last_action"
Ttls == {1, 2}

Idle == [op |-> "idle"]

\* a session, an entity and names that no call ever writes
UnknownSession == "s9"
UnknownEntity == "e9"
UnknownName == "missing"

Entities == {"e1", "e2"}
ContextTypes == {"job", "recent_interactions"}
Queries == {"schedule an interview", "screen this resume"}

\* the n-th call of the memory client: writes go to its session and to the entities,
\* reads go there and to what was never written
MemoryOperations(n) ==
    LET sid == SessionOf("m1")
    IN  { [op |-> "store_short_term", step |-> "ensure", sid |-> sid,
           key |-> StoredKey, value |-> n, ttl_minutes |-> DefaultTtlMinutes] }
        \cup { [op |-> "store_context", step |-> "ensure", sid |-> sid,
                context_type |-> type, data |-> <<[key |-> "note", value |-> n]>>]
               : type \in ContextTypes }
        \cup { [op |-> "get_short_term", step |-> "check", sid |-> at.sid, key |-> at.key]
               : at \in { [sid |-> sid, key |-> UnknownName],
                          [sid |-> UnknownSession, key |-> ""],
                          [sid |-> UnknownSession, key |-> StoredKey] } }
        \cup { [op |-> "get_context", step |-> "call", sid |-> at.sid,
                context_type |-> at.type]
               : at \in { [sid |-> sid, type |-> "job"],
                          [sid |-> sid, type |-> UnknownName],
                          [sid |-> UnknownSession, type |-> ""],
                          [sid |-> UnknownSession, type |-> "job"] } }
        \cup { [op |-> "get_relevant_context", step |-> "call", sid |-> at.sid,
                query |-> at.query]
               : at \in [sid : {sid}, query : Queries]
                        \cup [sid : {UnknownSession}, query : {"screen this resume"}] }
        \cup { [op |-> "store_long_term", step |-> "call", entity_id |-> e, data |-> d]
               : e \in Entities,
                 d \in { [k \in {"stage"} |-> n], [k \in {"score"} |-> n],
                         [k \in {"updated_at"} |-> n] } }
        \cup { [op |-> "get_long_term", step |-> "call", entity_id |-> e]
               : e \in Entities \cup {UnknownEntity} }
        \cup { [op |-> "clear_session", step |-> "call", sid |-> s]
               : s \in {sid, UnknownSession} }

\* the n-th operation a thread may issue: the arguments of the call
Operations(t, n) ==
    LET sid == SessionOf(t)
    IN  IF t = "m1" THEN MemoryOperations(n)
        ELSE IF t \in {"a1", "a2"}
        THEN { [op |-> "add_message", step |-> "ensure", sid |-> sid,
                role |-> IF n % 2 = 1 THEN "user" ELSE "assistant",
                content |-> t \o "-" \o ToString(n)] }
        ELSE
        { [op |-> "add_message", step |-> "ensure", sid |-> sid, role |-> "user",
           content |-> t \o "-" \o ToString(n)],
          [op |-> "store_context", step |-> "ensure", sid |-> sid,
           context_type |-> "job", data |-> n] }
        \cup { [op |-> "store_short_term", step |-> "ensure", sid |-> sid,
                key |-> StoredKey, value |-> n, ttl_minutes |-> ttl] : ttl \in Ttls }
        \cup { [op |-> "get_short_term", step |-> "check", sid |-> sid, key |-> key]
               : key \in {"", StoredKey} }

\* what a thread works on: the stores, its own locals, and what its completed calls
\* returned
World(ss, stm, cc, ltm, local, log) ==
    [sessions |-> ss, short_term_memory |-> stm, context_cache |-> cc,
     long_term_memory |-> ltm, local |-> local, log |-> log]

At(w, step) == [w EXCEPT !.local.step = step]

\* the call returns: its arguments and its result go to the log
Return(w, returned) ==
    [w EXCEPT !.local = Idle,
              !.log = Append(@, [call |-> w.local, returned |-> returned])]

\* add_message, one statement
AddMessageStep(w) ==
    LET f == w.local
    IN  CASE f.step = "ensure" ->
                 At([w EXCEPT !.sessions = ensure_session(@, f.sid)], "append")
          [] f.step = "append" ->
                 At([w EXCEPT !.sessions = append_message(@, f.sid, f.role, f.content)],
                    "limit")
          [] f.step = "limit" ->
                 IF over_limit(w.sessions, f.sid)
                 THEN [w EXCEPT !.local = Merge(f, [step |-> "assign",
                                                    slice |-> history_slice(w.sessions, f.sid)])]
                 ELSE Return(w, None)
          [] f.step = "assign" ->
                 Return([w EXCEPT !.sessions = set_messages(@, f.sid, f.slice)], None)

\* store_short_term, one statement; the sweep of _cleanup_expired reads the clock and
\* builds the filtered list, then assigns it
StoreShortTermStep(w) ==
    LET f == w.local
    IN  CASE f.step = "ensure" ->
                 At([w EXCEPT !.short_term_memory = ensure_entries(@, f.sid)], "append")
          [] f.step = "append" ->
                 [w EXCEPT !.short_term_memory =
                               append_entry(@, f.sid, f.key, f.value, f.ttl_minutes),
                           !.local = Merge(f, [step |-> "sweep", at |-> now])]
          [] f.step = "sweep" ->
                 IF f.sid \notin DOMAIN w.short_term_memory THEN Return(w, None)
                 ELSE [w EXCEPT !.local =
                          Merge(f, [step |-> "assign",
                                    kept |-> SelectSeq(w.short_term_memory[f.sid],
                                                       LiveEntry)])]
          [] f.step = "assign" ->
                 Return([w EXCEPT !.short_term_memory = set_entries(@, f.sid, f.kept)],
                        None)

\* get_short_term, one statement; `if key:` takes "" for no key
GetShortTermStep(w) ==
    LET f == w.local
    IN  CASE f.step = "check" ->
                 IF f.sid \notin DOMAIN w.short_term_memory
                 THEN Return([w EXCEPT !.local = Merge(f, [at |-> now])],
                             IF f.key # "" THEN None ELSE <<>>)
                 ELSE At(w, "sweep")
          [] f.step = "sweep" ->
                 [w EXCEPT !.local =
                     Merge(f, [step |-> "assign", at |-> now,
                               kept |-> SelectSeq(w.short_term_memory[f.sid], LiveEntry)])]
          [] f.step = "assign" ->
                 At([w EXCEPT !.short_term_memory = set_entries(@, f.sid, f.kept)],
                    "read")
          [] f.step = "read" ->
                 Return(w, IF f.key # ""
                           THEN newest_value(w.short_term_memory[f.sid], f.key)
                           ELSE listing(w.short_term_memory[f.sid]))

\* store_context, one statement
StoreContextStep(w) ==
    LET f == w.local
    IN  CASE f.step = "ensure" ->
                 At([w EXCEPT !.context_cache = ensure_context(@, f.sid)], "set")
          [] f.step = "set" ->
                 Return([w EXCEPT !.context_cache =
                            set_context(@, f.sid, f.context_type, f.data)], None)

\* get_context: reads only
GetContextStep(w) ==
    LET f == w.local
    IN  Return(w, get_context(w.context_cache, f.sid, f.context_type))

\* get_relevant_context: the listing of get_short_term sweeps the session first
GetRelevantContextStep(w) ==
    LET f == w.local
    IN  Return([w EXCEPT !.short_term_memory = cleanup_expired(@, f.sid),
                         !.local = Merge(f, [at |-> now])],
               get_relevant_context(w.short_term_memory, w.context_cache, f.sid,
                                    f.query))

\* store_long_term
StoreLongTermStep(w) ==
    LET f == w.local
    IN  Return([w EXCEPT !.long_term_memory = store_long_term(@, f.entity_id, f.data),
                         !.local = Merge(f, [at |-> now])],
               None)

\* get_long_term: reads only
GetLongTermStep(w) ==
    Return(w, get_long_term(w.long_term_memory, w.local.entity_id))

\* clear_session
ClearSessionStep(w) ==
    LET f == w.local
    IN  Return([w EXCEPT !.short_term_memory = drop_session(@, f.sid),
                         !.context_cache = drop_session(@, f.sid)],
               None)

Step(w) ==
    CASE w.local.op = "add_message" -> AddMessageStep(w)
      [] w.local.op = "store_short_term" -> StoreShortTermStep(w)
      [] w.local.op = "get_short_term" -> GetShortTermStep(w)
      [] w.local.op = "store_context" -> StoreContextStep(w)
      [] w.local.op = "get_context" -> GetContextStep(w)
      [] w.local.op = "get_relevant_context" -> GetRelevantContextStep(w)
      [] w.local.op = "store_long_term" -> StoreLongTermStep(w)
      [] w.local.op = "get_long_term" -> GetLongTermStep(w)
      [] w.local.op = "clear_session" -> ClearSessionStep(w)
      [] OTHER -> w

\* thread t runs the next statement of f on the shared stores; next to it, the same
\* call runs on stores that only t touches
Run(t, f, starting) ==
    LET shared == Step(World(sessions, short_term_memory, context_cache,
                             long_term_memory, f, ops[t]))
        mine == Step(IF starting THEN [alone[t] EXCEPT !.local = f] ELSE alone[t])
    IN  /\ sessions' = shared.sessions
        /\ short_term_memory' = shared.short_term_memory
        /\ context_cache' = shared.context_cache
        /\ long_term_memory' = shared.long_term_memory
        /\ inflight' = [inflight EXCEPT ![t] = shared.local]
        /\ ops' = [ops EXCEPT ![t] = shared.log]
        /\ alone' = [alone EXCEPT ![t] = mine]
        /\ UNCHANGED <<max_history, now, requestVars, llm>>

\* a thread starts the call op when it is idle, or goes on with the one it is in
Operate(t, op) ==
    \/ /\ inflight[t] = Idle
       /\ Len(ops[t]) < Budget
       /\ \E f \in Operations(t, Len(ops[t]) + 1) : f.op = op /\ Run(t, f, TRUE)
    \/ /\ inflight[t].op = op
       /\ Run(t, inflight[t], FALSE)

AddMessage == \E t \in Threads : Operate(t, "add_message")
StoreShortTerm == \E t \in Threads : Operate(t, "store_short_term")
GetShortTerm == \E t \in Threads : Operate(t, "get_short_term")
StoreContext == \E t \in Threads : Operate(t, "store_context")
GetContext == \E t \in Threads : Operate(t, "get_context")
GetRelevantContext == \E t \in Threads : Operate(t, "get_relevant_context")
StoreLongTerm == \E t \in Threads : Operate(t, "store_long_term")
GetLongTerm == \E t \in Threads : Operate(t, "get_long_term")
ClearSession == \E t \in Threads : Operate(t, "clear_session")

\* datetime.utcnow() moves on
Tick ==
    /\ now < StartTime + Horizon
    /\ now' = now + 1
    /\ UNCHANGED <<sessions, max_history, short_term_memory, context_cache, long_term_memory,
                   requestVars, threadVars, llm>>

\* threads about to call into stores ss, stm, cc and ltm; each gets a copy of the
\* stores to run its calls on alone
ThreadsInit(threads, limits, ss, stm, cc, ltm) ==
    /\ sessions = ss
    /\ short_term_memory = stm
    /\ context_cache = cc
    /\ long_term_memory = ltm
    /\ max_history \in limits
    /\ now = StartTime
    /\ inflight = [t \in threads |-> Idle]
    /\ ops = [t \in threads |-> <<>>]
    /\ alone = [t \in threads |-> World(ss, stm, cc, ltm, Idle, <<>>)]
    /\ RequestInit
    /\ NoLlmCall

\* a fresh process, ConversationManager(max_history) and MemoryService() just built,
\* and one thread
SessionInit ==
    ThreadsInit({"t1"}, 0..MaxHistory, EmptyDict, EmptyDict, EmptyDict, EmptyDict)

\* what earlier calls left for a session: a message, a short-term entry about to
\* expire, a context entry
PriorLedger(sid) ==
    [messages |-> <<ConversationMessage("user", sid \o "-0")>>,
     updated_at |-> StartTime - 1]
PriorEntries(sid) ==
    <<[key |-> StoredKey, value |-> 0, timestamp |-> StartTime - 1,
       expires_at |-> StartTime + 1]>>
PriorContext(sid) == [t \in {"job"} |-> [data |-> 0, timestamp |-> StartTime - 1]]

\* two threads, each with a session that earlier calls have filled up to the
\* configured maximum of one message
StoreInit ==
    LET sids == {"s1", "s2"}
    IN  ThreadsInit({"t1", "t2"}, {1},
                    [sid \in sids |-> PriorLedger(sid)],
                    [sid \in sids |-> PriorEntries(sid)],
                    [sid \in sids |-> PriorContext(sid)],
                    EmptyDict)

StoreNext ==
    \/ AddMessage
    \/ StoreShortTerm
    \/ GetShortTerm
    \/ StoreContext
    \/ Tick

\* one thread, statement by statement
SessionSpec == SessionInit /\ [][StoreNext]_vars

\* two threads on distinct sessions
StoreSpec == StoreInit /\ [][StoreNext]_vars

\* what earlier calls left the memory client: more live short-term entries than
\* get_relevant_context hands back, the oldest about to expire, a context entry, and
\* a long-term record of one entity
RecentEntries ==
    [i \in 1..(RecentWindow + 1) |->
        [key |-> StoredKey, value |-> 10 * i, timestamp |-> StartTime - 1,
         expires_at |-> IF i = 1 THEN StartTime + 1
                        ELSE StartTime - 1 + DefaultTtlMinutes]]
PriorRecord(e) ==
    [k \in {"name", "stage", "updated_at"} |->
        CASE k = "name" -> 0 [] k = "stage" -> 0 [] OTHER -> StartTime - 1]

MemoryInit ==
    LET sid == SessionOf("m1")
    IN  ThreadsInit({"m1"}, {DefaultMaxHistory}, EmptyDict,
                    [s \in {sid} |-> RecentEntries],
                    [s \in {sid} |-> PriorContext(sid)],
                    [e \in {"e1"} |-> PriorRecord(e)])

MemoryNext ==
    \/ StoreShortTerm
    \/ GetShortTerm
    \/ StoreContext
    \/ GetContext
    \/ GetRelevantContext
    \/ StoreLongTerm
    \/ GetLongTerm
    \/ ClearSession
    \/ Tick

\* one client of the memory service
MemorySpec == MemoryInit /\ [][MemoryNext]_vars

\* a session that earlier calls have filled up to the configured maximum
FilledLedger(sid, n) ==
    [messages |-> [i \in 1..n |-> ConversationMessage("user", sid \o "-0-" \o ToString(i))],
     updated_at |-> StartTime - 1]

\* two invocations about to append to the same session
LedgerInit ==
    \E n \in 1..MaxHistory :
        ThreadsInit({"a1", "a2"}, {n},
                    [sid \in {SessionOf("a1")} |-> FilledLedger(sid, n)],
                    EmptyDict, EmptyDict, EmptyDict)

\* two threads on one session's ledger
LedgerSpec == LedgerInit /\ [][AddMessage]_vars

-----------------------------------------------------------------------------
(* services/llm_service.py: LLMService.generate_response, one invocation.  The *)
(* Gemini client is the environment: each generate_content call returns a text *)
(* or raises.                                                                   *)

DefaultMaxRetries == 3      \* generate_response(max_retries=3)
MaxRetries == 4             \* largest max_retries a caller passes
DefaultRetrySeconds == 60   \* line 106: retry_seconds = 60

\* what one client.models.generate_content call does: a text, a rate-limit error
\* (429 / RESOURCE_EXHAUSTED) with or without a 'retry in N' hint, or another error
LlmOutcomes ==
    { [ok |-> TRUE, text |-> "reply", rate_limited |-> FALSE, retry_in |-> None],
      [ok |-> FALSE, text |-> "", rate_limited |-> TRUE, retry_in |-> Some(7)],
      [ok |-> FALSE, text |-> "", rate_limited |-> TRUE, retry_in |-> None],
      [ok |-> FALSE, text |-> "", rate_limited |-> FALSE, retry_in |-> None] }

\* lines 102-106: the delay the error message asks for, or the default
RetrySeconds(outcome) ==
    IF outcome.retry_in # None THEN outcome.retry_in[1] ELSE DefaultRetrySeconds

\* a variant of lines 108 and 120 that retries after the last attempt too
CanRetryAlways(attempt, retries) == TRUE

\* lines 108 and 120: attempt < max_retries - 1
CanRetry(attempt, retries) == attempt < retries - 1

\* line 57: _wait_for_rate_limit sleeps out the rest of the 2 second interval, if any
LlmWaitForRateLimit ==
    /\ llm.status = "waiting"
    /\ llm' = [llm EXCEPT !.status = "loop"]
    /\ UNCHANGED <<sessions, max_history, short_term_memory, context_cache, long_term_memory, now,
                   requestVars, threadVars>>

\* lines 59-125: one pass of the loop body, given what the client call does
LlmAttempt ==
    /\ llm.status = "loop"
    /\ llm.attempt < llm.max_retries
    /\ \E outcome \in LlmOutcomes :
        LET tried == [llm EXCEPT !.attempts = Append(@, outcome)]
        IN  llm' =
                IF outcome.ok
                THEN [tried EXCEPT !.status = "returned", !.text = outcome.text]
                ELSE IF CanRetry(llm.attempt, llm.max_retries)
                THEN [tried EXCEPT !.status = "sleeping",
                                   !.sleeps = Append(@, IF outcome.rate_limited
                                                        THEN RetrySeconds(outcome)
                                                        ELSE 2 ^ llm.attempt)]
                ELSE [tried EXCEPT !.status = "raised",
                                   !.error = IF outcome.rate_limited
                                             THEN "Rate limit exceeded"
                                             ELSE "Error generating response"]
    /\ UNCHANGED <<sessions, max_history, short_term_memory, context_cache, long_term_memory, now,
                   requestVars, threadVars>>

\* lines 110-111 and 122-123: time.sleep returns, `continue` takes the next attempt
LlmContinue ==
    /\ llm.status = "sleeping"
    /\ llm' = [llm EXCEPT !.status = "loop", !.attempt = @ + 1]
    /\ UNCHANGED <<sessions, max_history, short_term_memory, context_cache, long_term_memory, now,
                   requestVars, threadVars>>

\* line 127: the loop ran out without returning or raising
LlmLoopEnds ==
    /\ llm.status = "loop"
    /\ llm.attempt >= llm.max_retries
    /\ llm' = [llm EXCEPT !.status = "raised", !.error = "Max retries exceeded"]
    /\ UNCHANGED <<sessions, max_history, short_term_memory, context_cache, long_term_memory, now,
                   requestVars, threadVars>>

\* a caller enters generate_response with some max_retries
LlmInit ==
    /\ llm \in [status : {"waiting"}, max_retries : 0..MaxRetries,
                attempt : {0}, attempts : {<<>>}, sleeps : {<<>>},
                text : {""}, error : {""}]
    /\ sessions = EmptyDict
    /\ short_term_memory = EmptyDict
    /\ context_cache = EmptyDict
    /\ long_term_memory = EmptyDict
    /\ max_history = DefaultMaxHistory
    /\ now = StartTime
    /\ RequestInit
    /\ NoThreads

LlmNext ==
    \/ LlmWaitForRateLimit
    \/ LlmAttempt
    \/ LlmContinue
    \/ LlmLoopEnds

\* the thread inside generate_response keeps running: every sleep and every client
\* call comes back
LlmSpec == LlmInit /\ [][LlmNext]_vars /\ WF_vars(LlmNext)

-----------------------------------------------------------------------------
(* Properties *)

PlanTasks == IF "tasks" \in DOMAIN execution_plan THEN execution_plan.tasks ELSE <<>>

IsExecuteCall(c) == c.call = "execute"
ExecuteCalls == SelectSeq(calls, IsExecuteCall)
NoHandlerInvoked == ExecuteCalls = <<>>

Dispatching == execution_plan.status = "ready"
Dispatched == Dispatching /\ pc # "executing"

\* an exception result: what the except block appends
IsExceptionResult(r) == DOMAIN r = {"task_id", "success", "error"} /\ ~r["success"]

IsNoAgentResult(r, task) ==
    /\ DOMAIN r = {"task_id", "success", "error"}
    /\ ~r["success"]
    /\ r["error"] = "No agent found for task type: " \o task.type

\* a task of the decomposition names a dependency that is no task_id of the decomposition
DanglingDependency ==
    \E i \in DOMAIN decomposition.tasks :
        \E d \in DOMAIN decomposition.tasks[i].input_data.dependencies :
            decomposition.tasks[i].input_data.dependencies[d]
                \notin {decomposition.tasks[j].task_id : j \in DOMAIN decomposition.tasks}

\* C1: while and after the dispatcher runs a plan, the result list has one entry for
\* each plan task dispatched so far, the i-th entry carrying the i-th plan task's id,
\* and once the dispatcher has returned the list is as long as the plan, whatever the
\* handlers did.
C1_OneResultPerPlanTask ==
    Dispatching =>
        /\ Len(results) = next_task - 1
        /\ Len(results) <= Len(PlanTasks)
        /\ \A i \in DOMAIN results : Get(results[i], "task_id", "") = PlanTasks[i].task_id
        /\ Dispatched => Len(results) = Len(PlanTasks)

C1_Witness ==
    /\ Dispatched
    /\ Len(results) = 2
    /\ \E i, j \in DOMAIN results :
        /\ IsNoAgentResult(results[i], PlanTasks[i])
        /\ \E k \in DOMAIN calls :
               calls[k].task_id = PlanTasks[j].task_id /\ calls[k].outcome.raises

\* C2 as stated: whenever a decomposed task names a dependency that is no task of the
\* plan, the plan is marked invalid_sequence and no handler is invoked.
C2_DanglingAlwaysInvalid ==
    DanglingDependency =>
        /\ execution_plan.status = "invalid_sequence"
        /\ NoHandlerInvoked

\* C2, amended: a dangling dependency never lets a handler run; the plan is marked
\* invalid_sequence unless the decomposition asks for clarification, in which case it
\* is marked needs_clarification.
C2_DanglingNeverDispatched ==
    DanglingDependency =>
        /\ NoHandlerInvoked
        /\ results = <<>>
        /\ ~decomposition.requires_clarification
              => execution_plan.status = "invalid_sequence"
        /\ decomposition.requires_clarification
              => execution_plan.status = "needs_clarification"

C2_Witness ==
    /\ DanglingDependency
    /\ Len(decomposition.tasks) = 2
    /\ decomposition.tasks[1].input_data.dependencies = <<>>
    /\ execution_plan.status = "invalid_sequence"

\* C3: when dependency validation fails, process_request returns a failure response
\* (success false) to its caller and does not raise.
C3_InvalidPlanReturnsFailure ==
    execution_plan.status = "invalid_sequence" =>
        /\ pc = "responded"
        /\ raised = ""
        /\ ~response.success

\* the execute call made for a task id, if any
CallsFor(task_id) == {k \in DOMAIN calls : IsExecuteCall(calls[k]) /\ calls[k].task_id = task_id}

\* the task of the decomposition that has a given task id
DecomposedTask(task_id) ==
    CHOOSE t \in Range(decomposition.tasks) : t.task_id = task_id

C6_EveryTypeHasAnAgent ==
    \A i \in DOMAIN results :
        PlanTasks[i].type \in TaskTypeValues => ~IsNoAgentResult(results[i], PlanTasks[i])

\* C7: handlers are invoked in priority order: when a task's handler is invoked, every
\* plan task of strictly smaller priority number that has an agent has already had
\* its handler invoked, whatever the emission order.
C7_PriorityOrder ==
    Dispatching =>
        \A k \in DOMAIN ExecuteCalls :
            \A a \in Range(decomposition.tasks) :
                ( /\ a.task_type \in DOMAIN agents
                  /\ a.priority < DecomposedTask(ExecuteCalls[k].task_id).priority )
                => \E j \in 1..(k - 1) : ExecuteCalls[j].task_id = a.task_id

C7_Witness ==
    /\ Len(ExecuteCalls) = 2
    /\ ExecuteCalls[1].task_id = "task_2"
    /\ ExecuteCalls[2].task_id = "task_1"
    /\ DecomposedTask("task_2").priority = 1
    /\ DecomposedTask("task_1").priority = 3

\* C8: when a task that depends on another task of the plan is dispatched, its input
\* view holds that task's result under the key made from that task's id.
C8_DependencyResultInView ==
    Dispatching =>
        \A k \in DOMAIN ExecuteCalls :
            LET x == DecomposedTask(ExecuteCalls[k].task_id)
            IN  \A d \in DOMAIN x.input_data.dependencies :
                    x.input_data.dependencies[d] # x.task_id
                        => ResultKey(x.input_data.dependencies[d])
                               \in DOMAIN ExecuteCalls[k].task_data

\* C9: when intent analysis asks for clarification the request is answered at once
\* with the clarification message and the suggested questions; the decomposer is not
\* called and no handler is invoked.
C9_IntentClarificationShortCircuits ==
    Get(intent_analysis, "requires_clarification", FALSE) =>
        /\ pc = "responded"
        /\ response = AgentResponse(TRUE, "I need some clarification to help you better:",
                                    None,
                                    Some(Get(intent_analysis, "clarification_questions",
                                             <<>>)),
                                    None)
        /\ calls = <<Call("analyze_intent", "", EmptyDict, NoOutcome)>>
        /\ decomposition = NoDecomposition
        /\ execution_plan = NoPlan
        /\ results = <<>>

C9_Witness ==
    /\ Get(intent_analysis, "requires_clarification", FALSE)
    /\ pc = "responded"
    /\ response.suggestions = Some(<<"Which position?", "Which location?">>)

\* the session's messages
Ledger == IF Session \in DOMAIN sessions THEN sessions[Session].messages ELSE <<>>

\* no short-term entry was written by this request (time stands still during it)
NoSnapshotWritten ==
    Session \in DOMAIN short_term_memory =>
        \A i \in DOMAIN short_term_memory[Session] :
            short_term_memory[Session][i].timestamp < now

\* C10: when the decomposer's clarification flag fires the request is answered with a
\* successful response whose suggestions are the decomposer's questions; no handler
\* is invoked, no short-term snapshot is written, and the ledger ends with the user's
\* message followed by exactly one assistant message.
C10_DecomposerClarificationShortCircuits ==
    decomposition.requires_clarification =>
        /\ pc = "responded"
        /\ response.success
        /\ response.suggestions = Some(decomposition.questions)
        /\ decomposition.questions # <<>>
        /\ NoHandlerInvoked
        /\ results = <<>>
        /\ NoSnapshotWritten
        /\ Len(Ledger) >= 2
        /\ Ledger[Len(Ledger)] = ConversationMessage("assistant", response.message)
        /\ Ledger[Len(Ledger) - 1] = ConversationMessage("user", user_message)

C10_Witness ==
    /\ decomposition.requires_clarification
    /\ pc = "responded"
    /\ Len(decomposition.tasks) = 2
    /\ Len(Ledger) = max_history

\* the messages thread t has appended to its session by completed add_message calls
IsAppend(record) == record.call.op = "add_message"
Appended(t) ==
    LET appends == SelectSeq(ops[t], IsAppend)
    IN  [i \in DOMAIN appends |->
            ConversationMessage(appends[i].call.role, appends[i].call.content)]

\* C11: after any appends to a session, for any configured maximum N, the ledger
\* holds at most N messages, and they are the last min(N, k) of the k appended, in
\* append order.
C11_LedgerKeepsLastN ==
    \A t \in Threads :
        (inflight[t] = Idle /\ SessionOf(t) \in DOMAIN sessions) =>
            LET appended == Appended(t)
                k == Len(appended)
                kept == IF k < max_history THEN k ELSE max_history
                ledger == sessions[SessionOf(t)].messages
            IN  /\ Len(ledger) <= max_history
                /\ ledger = SubSeq(appended, k - kept + 1, k)

\* the completed calls of a thread
IsStore(record) == record.call.op = "store_short_term"
IsRead(record) == record.call.op = "get_short_term"

\* the values a completed get_short_term handed back: the one value of a read by
\* key, the values of a listing
ValuesRead(record) ==
    IF record.call.key # "" THEN Range(record.returned)
    ELSE {record.returned[i].value : i \in DOMAIN record.returned}

\* the store call wrote an entry whose TTL has elapsed when the read samples the clock
ElapsedBefore(store, read) == store.call.at + store.call.ttl_minutes <= read.call.at

\* C12: a short-term entry read after its TTL has elapsed is absent: neither the read
\* by key nor the listing hands back its value, on that read and on every later one;
\* the only sweeps are those of the reads and writes themselves.
C12_ExpiredEntryAbsent ==
    \A t \in Threads : \A j \in DOMAIN ops[t] : \A i \in 1..(j - 1) :
        (IsRead(ops[t][j]) /\ IsStore(ops[t][i]) /\ ElapsedBefore(ops[t][i], ops[t][j]))
            => ops[t][i].call.value \notin ValuesRead(ops[t][j])

\* an entry has expired, a younger one has not, and a listing hands back the younger
C12_Witness ==
    \E t \in Threads :
        /\ Len(ops[t]) = 3
        /\ IsStore(ops[t][1]) /\ IsStore(ops[t][2]) /\ IsRead(ops[t][3])
        /\ ops[t][3].call.key = ""
        /\ ElapsedBefore(ops[t][1], ops[t][3])
        /\ ~ElapsedBefore(ops[t][2], ops[t][3])
        /\ ValuesRead(ops[t][3]) = {ops[t][2].call.value}

\* the request was dispatched and answered
Answered == execution_plan.status = "ready" /\ pc = "responded"

\* the positions of the successful results, and the successful results in dispatch
\* order
OkAt(i) == "success" \in DOMAIN results[i] /\ results[i].success = TRUE
OkPositions == {i \in DOMAIN results : OkAt(i)}
OkResults == SelectSeq(results, LAMBDA r : "success" \in DOMAIN r /\ r.success = TRUE)

RECURSIVE NewlineJoined(_)
NewlineJoined(texts) ==
    IF texts = <<>> THEN ""
    ELSE IF Len(texts) = 1 THEN texts[1]
         ELSE texts[1] \o "\n" \o NewlineJoined(Tail(texts))

\* the messages of the successful results, in dispatch order
OkMessages ==
    LET with == SelectSeq(OkResults, LAMBDA r : "message" \in DOMAIN r /\ r.message # "")
    IN  [i \in DOMAIN with |-> with[i].message]

\* C13 as stated: with at least one success, the final message is exactly the
\* successful results' messages joined by newlines in dispatch order.
C13_MessageIsNewlineJoin ==
    (Answered /\ OkPositions # {}) => response.message = NewlineJoined(OkMessages)

\* C13 as amended: the final message is the successful results' messages joined by
\* newlines in dispatch order, followed by a blank line and "Completed k tasks." when
\* k > 1 results succeeded; failed results contribute nothing.
C13_MessageIsJoinThenSummary ==
    (Answered /\ OkPositions # {}) =>
        LET k == Cardinality(OkPositions)
            joined == IF OkMessages # <<>> THEN NewlineJoined(OkMessages)
                      ELSE "Task completed successfully"
        IN  response.message =
                IF k > 1 THEN joined \o "\n\nCompleted " \o ToString(k) \o " tasks."
                ELSE joined

\* two tasks succeeded: their messages joined by a newline, then the summary line
C13_Witness ==
    /\ Answered
    /\ Len(results) = 2
    /\ OkAt(1) /\ OkAt(2)
    /\ results[1].message # results[2].message
    /\ response.message = results[1].message \o "\n" \o results[2].message
                               \o "\n\nCompleted 2 tasks."

\* the next actions the successful results suggest
Suggested ==
    UNION { Range(results[i].next_actions) :
            i \in {j \in OkPositions : "next_actions" \in DOMAIN results[j]} }

\* C14: the response's next-actions list has at most 5 entries, no duplicates, and
\* every entry is suggested by some successful result.
C14_NextActionsCappedDistinctSuggested ==
    (Answered /\ response.next_actions # None) =>
        LET listed == response.next_actions[1]
        IN  /\ Len(listed) <= NextActionCap
            /\ \A i, j \in DOMAIN listed : listed[i] = listed[j] => i = j
            /\ Range(listed) \subseteq Suggested

\* two successes suggest more than five distinct next actions and five are listed
C14_Witness ==
    /\ Answered
    /\ Cardinality(Suggested) > NextActionCap
    /\ response.next_actions # None
    /\ Len(response.next_actions[1]) = NextActionCap

\* C15: with zero successful results the response has success false and lists the
\* error string of every failed result, one per failed task, in dispatch order.
C15_TotalFailureListsErrors ==
    (Answered /\ OkPositions = {}) =>
        /\ response.success = FALSE
        /\ response.data = Some([errors |-> [i \in DOMAIN results |-> results[i].error]])
        /\ Len(results) = Len(PlanTasks)

\* a no-agent failure and a handler failure, both listed
C15_Witness ==
    /\ Answered
    /\ Len(results) = 2
    /\ OkPositions = {}
    /\ IsNoAgentResult(results[1], PlanTasks[1])
    /\ response.data[1].errors = <<results[1].error, results[2].error>>
    /\ results[1].error # results[2].error

\* the reasoning service failed under intent analysis or decomposition
UpstreamErrors == {f.error : f \in UpstreamFailures}
UpstreamFailed == raised \in UpstreamErrors

\* C16: when intent analysis or decomposition fails upstream, process_request ends the
\* request by returning a failure response.
C16_UpstreamFailureReturnsFailureResponse ==
    UpstreamFailed =>
        /\ pc = "responded"
        /\ response.success = FALSE

\* the request ended in an exception before any task was dispatched: the reasoning
\* service failed, the decomposition could not be converted, or the plan was invalid
EndedInFailure == pc = "raised"

\* the ledger a store's session holds once the user's message is appended
LedgerWithUserMessage(store) ==
    LET before == IF Session \in DOMAIN store.ledger
                  THEN store.ledger[Session].messages ELSE <<>>
        all == Append(before, [role |-> "user", content |-> user_message])
    IN  IF Len(all) > max_history
        THEN SubSeq(all, Len(all) - max_history + 1, Len(all))
        ELSE all

\* the entries of a store's session that have not expired
UnexpiredEntries(store) ==
    [sid \in DOMAIN store.memory |->
        SelectSeq(store.memory[sid], LAMBDA e : e.expires_at > now)]

\* C17 as stated: a request that ends through a plan-level or upstream failure leaves
\* behind the user's message appended to the ledger and nothing else: the short-term
\* memory and the context cache are as they were and no handler has run.
C17_OnlyUserMessageLeftBehind ==
    EndedInFailure =>
        \E store \in InitialStores :
            /\ Ledger = LedgerWithUserMessage(store)
            /\ short_term_memory = store.memory
            /\ context_cache = EmptyDict
            /\ long_term_memory = EmptyDict
            /\ NoHandlerInvoked

\* C17 as amended: such a request leaves behind the user's message appended to the
\* ledger and the removal of the session's expired short-term entries by the read of
\* line 39: no short-term entry is written, no assistant message is appended, the
\* context cache is as it was and no handler has run.
C17_UserMessageAndSweepLeftBehind ==
    EndedInFailure =>
        \E store \in InitialStores :
            /\ Ledger = LedgerWithUserMessage(store)
            /\ short_term_memory = UnexpiredEntries(store)
            /\ context_cache = EmptyDict
            /\ long_term_memory = EmptyDict
            /\ NoHandlerInvoked

\* an invalid plan ended a request on a session with a live and an expired entry
C17_Witness ==
    /\ EndedInFailure
    /\ execution_plan.status = "invalid_sequence"
    /\ Session \in DOMAIN short_term_memory
    /\ Len(short_term_memory[Session]) = 1
    /\ Len(Ledger) = max_history
    /\ Ledger[Len(Ledger)].role = "user"

\* the calls of this request to intent analysis and to the decomposer
IntentCalls == SelectSeq(calls, LAMBDA c : c.call = "analyze_intent")
DecomposerCalls == SelectSeq(calls, LAMBDA c : c.call = "generate_execution_plan")

\* C18: one process_request invocation calls intent analysis exactly once and the
\* decomposer at most once, and once either has failed no further call is made: the
\* failed call is the last one of the request.
C18_UpstreamCalledOnceNeverRetried ==
    /\ Len(IntentCalls) <= 1
    /\ Len(DecomposerCalls) <= 1
    /\ pc \notin {"idle", "received"} => Len(IntentCalls) = 1
    /\ UpstreamFailed =>
           /\ pc = "raised"
           /\ calls \in {IntentCalls, IntentCalls \o DecomposerCalls}
           /\ results = <<>>

\* the decomposer's call to the reasoning service failed after a good intent analysis
C18_Witness ==
    /\ UpstreamFailed
    /\ Len(IntentCalls) = 1
    /\ Len(DecomposerCalls) = 1
    /\ Len(calls) = 2

LlmDone == llm.status \in {"returned", "raised"}
LlmFailures == SelectSeq(llm.attempts, LAMBDA o : ~o.ok)

\* what holds of the attempts made so far: at most max_retries; a return hands back
\* the text of the first successful attempt, which is the last attempt made; a raise
\* comes only after max_retries failed attempts; no retry is waited for once
\* max_retries attempts have failed
LlmBounded ==
    /\ Len(llm.attempts) <= llm.max_retries
    /\ llm.status = "returned" =>
           /\ Len(llm.attempts) = Len(LlmFailures) + 1
           /\ llm.attempts[Len(llm.attempts)].ok
           /\ llm.text = llm.attempts[Len(llm.attempts)].text
    /\ llm.status = "raised" =>
           /\ Len(llm.attempts) = llm.max_retries
           /\ LlmFailures = llm.attempts
    /\ llm.status \in {"sleeping", "loop"} =>
           /\ LlmFailures = llm.attempts
           /\ llm.status = "sleeping" => Len(llm.attempts) < llm.max_retries

\* C19: generate_response always terminates; it makes at most max_retries attempts,
\* returns the text of the first successful attempt without a further attempt, and
\* raises once max_retries consecutive attempts have failed instead of retrying.
C19_BoundedRetriesThenTerminal == []LlmBounded /\ <>LlmDone

\* the default three attempts: two failures slept out, then a text
C19_Witness ==
    /\ llm.status = "returned"
    /\ llm.max_retries = DefaultMaxRetries
    /\ Len(llm.attempts) = DefaultMaxRetries
    /\ Len(llm.sleeps) = 2

\* what a store holds for one session
Of(store, sid) == IF sid \in DOMAIN store THEN <<store[sid]>> ELSE <<>>

\* C20: under any interleaving of the statements of ledger and memory calls made by
\* threads on distinct session ids, each session's ledger, short-term entries and
\* context cache, and what its calls return, are at every moment what the session's
\* own calls produce on stores nobody else touches.
C20_SessionsDoNotInterfere ==
    \A t \in Threads :
        LET sid == SessionOf(t)
        IN  /\ Of(sessions, sid) = Of(alone[t].sessions, sid)
            /\ Of(short_term_memory, sid) = Of(alone[t].short_term_memory, sid)
            /\ Of(context_cache, sid) = Of(alone[t].context_cache, sid)
            /\ inflight[t] = alone[t].local
            /\ ops[t] = alone[t].log

\* one thread has swept its session after the other session's entry expired, while
\* the other thread is inside an append: the other session's expired entry is still
\* stored and its ledger holds the message being appended
C20_Witness ==
    /\ Cardinality(Threads) = 2
    /\ Len(ops["t2"]) = 1
    /\ ops["t2"][1].call.op = "store_short_term"
    /\ ops["t2"][1].call.at = StartTime + 1
    /\ Len(short_term_memory["s2"]) = 1
    /\ short_term_memory["s1"] = PriorEntries("s1")
    /\ inflight["t1"] # Idle
    /\ inflight["t1"].op = "add_message"
    /\ inflight["t1"].step = "assign"
    /\ Len(sessions["s1"].messages) = 2

-----------------------------------------------------------------------------
(* The memory service under one client, and two threads on one ledger *)

\* the call aims at a session, a key, a context type or an entity that nothing has
\* ever written: no earlier call and no call of the client writes these names
Unwritten(call) ==
    CASE call.op = "get_short_term" ->
             call.sid = UnknownSession \/ call.key = UnknownName
      [] call.op = "get_context" ->
             call.sid = UnknownSession \/ call.context_type = UnknownName
      [] call.op \in {"get_relevant_context", "clear_session"} ->
             call.sid = UnknownSession
      [] call.op = "get_long_term" -> call.entity_id = UnknownEntity
      [] OTHER -> FALSE

\* C21: every read of the memory service on a session, key, context type or entity
\* id that was never written, and clear_session on an unknown session, returns: what
\* it returns is None or empty, and is never an exception.
C21_UnwrittenReadsReturnEmpty ==
    \A t \in Threads : \A j \in DOMAIN ops[t] :
        Unwritten(ops[t][j].call) => ops[t][j].returned \in {None, EmptyDict}

\* a context type is stored for the session, then another type that was never
\* stored is read there
C21_Witness ==
    \E t \in Threads :
        /\ Len(ops[t]) = 2
        /\ ops[t][1].call.op = "store_context"
        /\ ops[t][2].call.op = "get_context"
        /\ ops[t][2].call.sid = ops[t][1].call.sid
        /\ ops[t][2].call.context_type = UnknownName
        /\ ops[t][2].returned = None

\* the step completes a call of thread t, and the call it completes
Completes(t, op) ==
    /\ Len(ops'[t]) = Len(ops[t]) + 1
    /\ ops'[t][Len(ops'[t])].call.op = op
Completed(t) == ops'[t][Len(ops'[t])].call

\* C22: after store_long_term(entity, fields), get_long_term(entity) holds the newly
\* supplied value for every field named in fields, and its previous value for every
\* previously stored field not named in fields; the records of the other entity ids
\* are unchanged.
C22_StoreLongTermMerges ==
    [][\A t \in DOMAIN ops :
          Completes(t, "store_long_term") =>
              LET call == Completed(t)
                  before == get_long_term(long_term_memory, call.entity_id)
                  after == get_long_term(long_term_memory', call.entity_id)
              IN  /\ \A k \in DOMAIN call.data :
                         k \in DOMAIN after /\ after[k] = call.data[k]
                  /\ \A k \in DOMAIN before \ DOMAIN call.data :
                         k \in DOMAIN after /\ after[k] = before[k]
                  /\ \A e \in DOMAIN long_term_memory \ {call.entity_id} :
                         get_long_term(long_term_memory', e) = long_term_memory[e]
      ]_vars

\* C22 as amended: after store_long_term(entity, fields), get_long_term(entity) holds
\* the newly supplied value for every field named in fields other than updated_at,
\* its previous value for every previously stored field not named in fields other
\* than updated_at, and under updated_at the time of the store; the records of the
\* other entity ids are unchanged.
C22_StoreLongTermMergesAndStamps ==
    [][\A t \in DOMAIN ops :
          Completes(t, "store_long_term") =>
              LET call == Completed(t)
                  before == get_long_term(long_term_memory, call.entity_id)
                  after == get_long_term(long_term_memory', call.entity_id)
              IN  /\ \A k \in DOMAIN call.data \ {"updated_at"} :
                         k \in DOMAIN after /\ after[k] = call.data[k]
                  /\ \A k \in (DOMAIN before \ DOMAIN call.data) \ {"updated_at"} :
                         k \in DOMAIN after /\ after[k] = before[k]
                  /\ "updated_at" \in DOMAIN after /\ after["updated_at"] = call.at
                  /\ \A e \in DOMAIN long_term_memory \ {call.entity_id} :
                         get_long_term(long_term_memory', e) = long_term_memory[e]
      ]_vars

\* a field of a stored record was overwritten, another one kept, and the record read
C22_Witness ==
    \E t \in Threads :
        /\ Len(ops[t]) = 2
        /\ ops[t][1].call.op = "store_long_term"
        /\ ops[t][1].call.entity_id = "e1"
        /\ DOMAIN ops[t][1].call.data = {"stage"}
        /\ ops[t][2].call.op = "get_long_term"
        /\ ops[t][2].call.entity_id = "e1"
        /\ ops[t][2].returned =
               Merge(PriorRecord("e1"), [k \in {"stage", "updated_at"} |->
                                            IF k = "stage" THEN ops[t][1].call.data[k]
                                            ELSE ops[t][1].call.at])

\* C25: get_relevant_context(session, query) returns the union of the session's most
\* recent live short-term entries (at most the last 5 of them) and the context
\* snapshot: every context type stored for the session is there with its latest
\* data, the recent entries are never lost from the result, and the query text does
\* not change the result.
C25_RelevantContextIsUnion ==
    \A t \in Threads : \A j \in DOMAIN ops[t] :
        (/\ ops[t][j].call.op = "get_relevant_context"
         /\ j = Len(ops[t])
         /\ inflight[t] = Idle) =>
            LET call == ops[t][j].call
                got == ops[t][j].returned
                entries == Get(short_term_memory, call.sid, <<>>)
                types == Get(context_cache, call.sid, EmptyDict)
            IN  /\ \A k \in DOMAIN types : k \in DOMAIN got /\ got[k] = types[k].data
                /\ entries # <<>> =>
                       /\ "recent_interactions" \in DOMAIN got
                       /\ got["recent_interactions"] = LastN(listing(entries), RecentWindow)
                /\ DOMAIN got \subseteq DOMAIN types \cup {"recent_interactions"}
                /\ (/\ j > 1
                    /\ ops[t][j - 1].call.op = "get_relevant_context"
                    /\ ops[t][j - 1].call.sid = call.sid
                    /\ ops[t][j - 1].call.at = call.at) =>
                       ops[t][j - 1].returned = got

\* the appends made by all threads
AppendCount ==
    Cardinality({p \in UNION {{<<t, i>> : i \in DOMAIN ops[t]} : t \in Threads} :
                    IsAppend(ops[p[1]][p[2]])})

\* C29: when two invocations append to the same session's ledger concurrently, the
\* append, slice and reassignment of one do not discard the other's message: a
\* message is missing from the ledger only if max_history newer messages were
\* appended after it, so after no more than max_history appends every appended
\* message is in the ledger.
C29_ConcurrentAppendsKeepNewest ==
    ((\A t \in Threads : inflight[t] = Idle) /\ AppendCount <= max_history) =>
        \A t \in Threads :
            Range(Appended(t)) \subseteq Range(sessions[SessionOf(t)].messages)

\* the stores made before the j-th call of thread t whose TTL has not elapsed when
\* that call samples the clock
LiveStores(t, j) ==
    SelectSeq(SubSeq(ops[t], 1, j - 1),
              LAMBDA r : IsStore(r) /\ ~ElapsedBefore(r, ops[t][j]))

\* C30: store_short_term never overwrites by key: the listing hands back, in
\* insertion order, every entry stored and not yet expired, those stored under one
\* key twice included, and the read by key hands back the value of the most recently
\* stored unexpired entry of the key, None if there is none.
C30_StoresAccumulateNewestWins ==
    \A t \in Threads : \A j \in DOMAIN ops[t] :
        IsRead(ops[t][j]) =>
            LET live == LiveStores(t, j)
                keyed == SelectSeq(live, LAMBDA r : r.call.key = ops[t][j].call.key)
            IN  IF ops[t][j].call.key = ""
                THEN ops[t][j].returned =
                         [i \in DOMAIN live |-> [key |-> live[i].call.key,
                                                 value |-> live[i].call.value]]
                ELSE ops[t][j].returned =
                         IF keyed = <<>> THEN None
                         ELSE Some(keyed[Len(keyed)].call.value)

\* the same key was stored twice; the listing hands back both entries, the read by
\* key the second value
C30_Witness ==
    \E t \in Threads :
        /\ Len(ops[t]) = 3
        /\ IsStore(ops[t][1]) /\ IsStore(ops[t][2]) /\ IsRead(ops[t][3])
        /\ ops[t][1].call.key = ops[t][2].call.key
        /\ ops[t][3].call.key = ops[t][1].call.key
        /\ ~ElapsedBefore(ops[t][1], ops[t][3])
        /\ ops[t][3].returned = Some(ops[t][2].call.value)
        /\ Len(short_term_memory[SessionOf(t)]) = 2

-----------------------------------------------------------------------------
(* The plan and the end of a dispatched request *)

\* where the reasoning service emitted the task
EmittedAt(task_id) ==
    CHOOSE k \in DOMAIN decomposition.tasks : decomposition.tasks[k].task_id = task_id

\* C23: the task list of a ready plan is a permutation of the decomposed tasks in
\* non-decreasing priority order, and tasks of equal priority keep the order in which
\* they were emitted.
C23_PlanIsStablePrioritySort ==
    execution_plan.status = "ready" =>
        /\ Len(PlanTasks) = Len(decomposition.tasks)
        /\ \A k \in DOMAIN decomposition.tasks :
               \E i \in DOMAIN PlanTasks : PlanTasks[i] = PlanTask(decomposition.tasks[k])
        /\ \A i, j \in DOMAIN PlanTasks :
               i < j =>
                   /\ PlanTasks[i].priority <= PlanTasks[j].priority
                   /\ PlanTasks[i].priority = PlanTasks[j].priority
                          => EmittedAt(PlanTasks[i].task_id) < EmittedAt(PlanTasks[j].task_id)

\* two tasks of equal priority, planned in the order they were emitted
C23_Witness ==
    /\ execution_plan.status = "ready"
    /\ Len(PlanTasks) = 2
    /\ PlanTasks[1].priority = PlanTasks[2].priority
    /\ PlanTasks[1].task_id = "task_1"
    /\ PlanTasks[2].task_id = "task_2"

\* a decomposition came back and a plan was made of it
Planned == execution_plan.status # "none"

\* task a goes before task b by priority, and by emission among equals
GoesBefore(a, b) ==
    \/ a.priority < b.priority
    \/ a.priority = b.priority /\ EmittedAt(a.task_id) < EmittedAt(b.task_id)

C27_ClarificationBeforeValidation ==
    (Planned /\ decomposition.requires_clarification /\ DanglingDependency) =>
        /\ execution_plan.status = "needs_clarification"
        /\ "error" \notin DOMAIN execution_plan
        /\ execution_plan.questions = decomposition.questions

C27_Witness ==
    /\ Planned
    /\ decomposition.requires_clarification
    /\ DanglingDependency
    /\ Len(decomposition.tasks) = 1
    /\ execution_plan.status = "needs_clarification"

\* the newest short-term entry of the request's session is the snapshot of the
\* request: the intent and the raw result list under the key last_action
SnapshotWritten ==
    LET entries == Get(short_term_memory, session_id, <<>>)
    IN  /\ entries # <<>>
        /\ entries[Len(entries)].key = "last_action"
        /\ entries[Len(entries)].value =
               [intent |-> Get(intent_analysis, "intent", ""), results |-> results]
        /\ entries[Len(entries)].timestamp = now

\* the ledger ends with the user's message and then the response's message
AnswerAppended ==
    /\ Len(Ledger) >= 2
    /\ Ledger[Len(Ledger) - 1] = ConversationMessage("user", user_message)
    /\ Ledger[Len(Ledger)] = ConversationMessage("assistant", response.message)

====
